---- MODULE Spec2Model ----
(***************************************************************************)
(* Model of pyrevitlib/pyrevit/revit/db/query.py: the query helpers over   *)
(* the host application's document object model.                          *)
(*                                                                         *)
(* State: the open documents (HOST_APP.docs, of which "active" is          *)
(* HOST_APP.doc), the host application's shared-parameter file setting,    *)
(* the outcome of the last call (operation, arguments, value returned or   *)
(* exception raised) and the host calls that call made.                    *)
(***************************************************************************)
EXTENDS Integers, Sequences, FiniteSets, TLC

VARIABLES docs, app, ret, log

vars == <<docs, app, ret, log>>

(***************************************************************************)
(* Bounds of the model.                                                    *)
(***************************************************************************)
MaxLen == 2

(***************************************************************************)
(* Python values.                                                          *)
(***************************************************************************)
None == [t |-> "None"]

\* The outcome of a call: the value returned or the exception raised, and
\* the host calls made on the way (recorded where a claim reads them).
RetC(v, calls) == [kind |-> "return", value |-> v, exc |-> None, calls |-> calls]

ExcC(e, calls) == [kind |-> "raise", value |-> None, exc |-> e, calls |-> calls]

Ret(v) == RetC(v, <<>>)

Exc(e) == ExcC(e, <<>>)

\* an exception object: its type and message
Error(type) == [t |-> type, msg |-> ""]

PyRevitException(msg) == [t |-> "PyRevitException", msg |-> msg]

Str(s) == [t |-> "str", s |-> s]

List(l) == [t |-> "list", l |-> l]

\* sequences of at most n elements of S
SeqsUpTo(S, n) == UNION {[1..k -> S] : k \in 0..n}

\* collections of at most n distinct objects of S, in host order
InjSeqs(S, n) == {s \in SeqsUpTo(S, n) : \A i, j \in DOMAIN s : s[i] = s[j] => i = j}

Range(s) == {s[i] : i \in DOMAIN s}

RECURSIVE Concat(_)
Concat(ss) == IF ss = <<>> THEN <<>> ELSE Head(ss) \o Concat(Tail(ss))

\* a list comprehension [x for x in s if P(x)]
Filter(s, P(_)) ==
    LET F[i \in 0..Len(s)] ==
            IF i = 0 THEN <<>>
            ELSE IF P(s[i]) THEN Append(F[i - 1], s[i]) ELSE F[i - 1]
    IN  F[Len(s)]

\* a for loop that returns its first hit: the first x of s with P(x), else
\* falling off the end of the function (None)
First(s, P(_)) ==
    LET I == {i \in DOMAIN s : P(s[i])}
    IN  IF I = {} THEN None ELSE s[CHOOSE i \in I : \A j \in I : i <= j]

\* Python's `sub in s` on strings (strings are sequences of characters)
Contains(sub, s) ==
    \E i \in 0..(Len(s) - Len(sub)) : SubSeq(s, i + 1, i + Len(sub)) = sub

(***************************************************************************)
(* The documents.  `doc or HOST_APP.doc`: a document object is truthy, so  *)
(* the active document is taken exactly when doc is None.                  *)
(***************************************************************************)
DocIds == {"active", "other"}

\* the doc argument of a call: left out, or the document that is not active
DocArgs == {None, [t |-> "doc", id |-> "other"]}

DocOf(doc) == IF doc = None THEN docs["active"] ELSE docs[doc.id]

(***************************************************************************)
(* Host enumerations.                                                      *)
(***************************************************************************)
GRAPHICAL_VIEWTYPES ==
    {"FloorPlan", "CeilingPlan", "Elevation", "ThreeD", "Schedule",
     "DrawingSheet", "Report", "DraftingView", "Legend", "EngineeringPlan",
     "AreaPlan", "Section", "Detail", "CostReport", "LoadsReport",
     "PresureLossReport", "ColumnSchedule", "PanelSchedule", "Walkthrough",
     "Rendering"}

\* DB.ViewType also has members that are no graphical view types
ViewTypes == GRAPHICAL_VIEWTYPES \cup {"Undefined", "ProjectBrowser", "SystemBrowser", "Internal"}

\* DB.BuiltInCategory.GetValues(DB.BuiltInCategory): the integer values of
\* the built-in categories (negative element ids; INVALID is the first)
BuiltInCategoryValues == {0 - 1, 0 - 2, 0 - 3, 0 - 4, 0 - 5, 0 - 6, 0 - 7}

BuiltIn(v) == [t |-> "bic", v |-> v]

ElementId(v) == [t |-> "eid", v |-> v]

(***************************************************************************)
(* Worksets: find_workset, model_has_workset.                              *)
(***************************************************************************)
find_workset(workset_name_or_list, doc, partial) ==
    LET workset_clctr == DocOf(doc).worksets
        InAny(workset) ==
            \E k \in DOMAIN workset_name_or_list.l :
                Contains(workset_name_or_list.l[k], workset.Name)
        In(workset) == Contains(workset_name_or_list.s, workset.Name)
        Eq(workset) == workset_name_or_list.s = workset.Name
    IN  IF workset_name_or_list.t = "list"
        THEN Ret(First(workset_clctr, InAny))
        ELSE IF workset_name_or_list.t = "str"
        THEN IF partial
             THEN Ret(First(workset_clctr, In))
             ELSE Ret(First(workset_clctr, Eq))
        ELSE Ret(None)

model_has_workset(workset_name, partial, doc) ==
    find_workset(workset_name, doc, partial)

(***************************************************************************)
(* Views and schedules.                                                    *)
(***************************************************************************)
get_all_views(doc, include_nongraphical) ==
    LET all_views == DocOf(doc).views
        Graphical(x) ==
            /\ x.ViewType \in GRAPHICAL_VIEWTYPES
            /\ ~x.IsTemplate
            /\ ~x.ViewSpecific
    IN  IF ~include_nongraphical
        THEN Filter(all_views, Graphical)
        ELSE all_views

\* get_view_by_name indexing the matches instead of looping over the views
get_view_by_name_indexing(view_name, doc) ==
    LET Named(view) == view.ViewName = view_name
        found == First(get_all_views(doc, FALSE), Named)
    IN  IF found = None THEN Exc(Error("IndexError")) ELSE Ret(found)

get_view_by_name(view_name, doc) ==
    LET Named(view) == view.ViewName = view_name
    IN  Ret(First(get_all_views(doc, FALSE), Named))

find_first_legend(doc) ==
    LET IsLegend(v) == v.ViewType = "Legend"
    IN  Ret(First(DocOf(doc).views, IsLegend))

get_all_schedules(doc) == DocOf(doc).schedules

get_schedule_field(schedule, field_name) ==
    LET Named(field) == field.Name = field_name
    IN  Ret(First(schedule.fields, Named))

get_schedule_filters(schedule, field_name, return_index) ==
    LET field == get_schedule_field(schedule, field_name).value
        filters == schedule.filters
        \* enumerate(): Python indexes from 0
        F[i \in 0..Len(filters)] ==
            IF i = 0 THEN <<>>
            ELSE IF filters[i].FieldId = field.FieldId
                 THEN Append(F[i - 1], IF return_index THEN i - 1 ELSE filters[i])
                 ELSE F[i - 1]
    IN  IF field # None THEN Ret(F[Len(filters)]) ELSE Ret(<<>>)

(***************************************************************************)
(* Shared parameters bound in a document.                                  *)
(***************************************************************************)
get_model_sharedparams(doc) == DocOf(doc).bindings

\* the caller's doc is not passed on: the active document is searched
get_sharedparam_id(param_name) ==
    LET Named(sp) == sp.name = param_name
        sp == First(get_model_sharedparams(None), Named)
    IN  IF sp = None THEN Ret(None) ELSE Ret(sp.Id)

get_model_sharedparam(param_id_or_name, doc) ==
    LET Same(x) ==
            \/ param_id_or_name.t = "str" /\ x.name = param_id_or_name.s
            \/ param_id_or_name.t = "eid" /\ x.Id = param_id_or_name
    IN  Ret(First(get_model_sharedparams(doc), Same))

model_has_sharedparam(param_id_or_name, doc) ==
    get_model_sharedparam(param_id_or_name, doc)

(***************************************************************************)
(* Categories.                                                             *)
(***************************************************************************)
get_doc_categories(doc) ==
    LET cats == DocOf(doc).cats
    IN  cats \o Concat([i \in DOMAIN cats |-> cats[i].SubCategories])

\* get_doc_categories() is called without the doc: the categories searched
\* are those of the active document
get_category(cat_name_or_builtin, doc) ==
    LET all_cats == get_doc_categories(None)
        Named(cat) == cat.Name = cat_name_or_builtin.s
        Numbered(cat) == cat.Id.v = cat_name_or_builtin.v
    IN  IF cat_name_or_builtin.t = "str"
        THEN Ret(First(all_cats, Named))
        ELSE IF cat_name_or_builtin.t = "bic"
        THEN Ret(First(all_cats, Numbered))
        ELSE IF cat_name_or_builtin.t = "cat"
        THEN Ret(cat_name_or_builtin)
        ELSE Ret(None)

get_builtincategory(cat_name_or_id, doc) ==
    LET cat == IF cat_name_or_id.t = "str"
               THEN get_category(cat_name_or_id, None).value
               ELSE None
        cat_id == IF cat_name_or_id.t = "str"
                  THEN (IF cat # None THEN cat.Id.v ELSE 0)
                  ELSE IF cat_name_or_id.t = "eid"
                  THEN cat_name_or_id.v
                  ELSE 0
    IN  \* `if cat_id:` is false for None and for 0 alike
        IF cat_id # 0 /\ cat_id \in BuiltInCategoryValues
        THEN Ret(BuiltIn(cat_id))
        ELSE Ret(None)

(***************************************************************************)
(* Strings of parameter values: str(), lower(), isspace().                 *)
(***************************************************************************)
DigitChars == <<"0", "1", "2", "3", "4", "5", "6", "7", "8", "9">>

RECURSIVE IntStr(_)
IntStr(n) ==
    IF n < 0 THEN <<"-">> \o IntStr(0 - n)
    ELSE IF n < 10 THEN <<DigitChars[n + 1]>>
    ELSE IntStr(n \div 10) \o <<DigitChars[(n % 10) + 1]>>

PyInt(v) == [t |-> "int", v |-> v]

\* a double, held as a number of halves (0.5, 1.5, ...)
PyFloat(halves) == [t |-> "float", halves |-> halves]

\* safe_strtype(value): the text of a value
safe_strtype(value) ==
    IF value.t = "str" THEN value.s
    ELSE IF value.t = "int" THEN IntStr(value.v)
    ELSE IF value.t = "eid" THEN IntStr(value.v)
    ELSE IF value.t = "float"
    THEN IntStr(value.halves \div 2) \o (IF value.halves % 2 = 1 THEN <<".", "5">> ELSE <<".", "0">>)
    ELSE <<"N", "o", "n", "e">>

LowerChar(c) ==
    CASE c = "N" -> "n"
      [] c = "O" -> "o"
      [] c = "E" -> "e"
      [] c = "A" -> "a"
      [] OTHER -> c

lower(s) == [i \in DOMAIN s |-> LowerChar(s[i])]

isspace(s) == Len(s) > 0 /\ \A i \in DOMAIN s : s[i] \in {" ", "\t"}

(***************************************************************************)
(* Elements and their parameters.                                          *)
(***************************************************************************)
get_all_elements(doc) ==
    LET NotType(x) == ~x.IsElementType
    IN  Filter(DocOf(doc).elements, NotType)

\* el.LookupParameter(param_name): a parameter of that name, or None
LookupParameter(el, param_name) ==
    LET Named(p) == p.Name = param_name
    IN  First(el.params, Named)

\* no branch assigns value when the storage type is StorageType.None: the
\* return statement then reads an unbound local
get_param_value(targetparam) ==
    IF targetparam.StorageType \in {"Double", "Integer", "String", "ElementId"}
    THEN Ret(targetparam.value)
    ELSE Exc(Error("UnboundLocalError"))

get_value_range(param_name, doc) ==
    LET els == get_all_elements(doc)
        Step(acc, el) ==
            LET targetparam == LookupParameter(el, param_name)
                got == get_param_value(targetparam)
                value == got.value
            IN  IF acc.kind = "raise" \/ targetparam = None THEN acc
                ELSE IF got.kind = "raise" THEN got
                ELSE IF value # None /\ lower(safe_strtype(value)) # <<"n", "o", "n", "e">>
                THEN IF value.t = "str" /\ ~isspace(value.s)
                     THEN Ret(acc.value \cup {value})
                     ELSE Ret(acc.value \cup {value})
                ELSE acc
        V[i \in 0..Len(els)] == IF i = 0 THEN Ret({}) ELSE Step(V[i - 1], els[i])
    IN  V[Len(els)]

get_elements_by_parameter(param_name, param_value, doc, partial) ==
    LET els == get_all_elements(doc)
        Step(acc, el) ==
            LET targetparam == LookupParameter(el, param_name)
                got == get_param_value(targetparam)
                value == got.value
            IN  IF acc.kind = "raise" \/ targetparam = None THEN acc
                ELSE IF got.kind = "raise" THEN got
                ELSE IF partial /\ value # None /\ value.t = "str"
                THEN \* `param_value in value` wants a string on the left
                     IF param_value.t # "str" THEN Exc(Error("TypeError"))
                     ELSE IF Contains(param_value.s, value.s)
                     THEN Ret(Append(acc.value, el))
                     ELSE IF param_value = value
                     THEN Ret(Append(acc.value, el))
                     ELSE acc
                ELSE IF param_value = value
                THEN Ret(Append(acc.value, el))
                ELSE acc
        V[i \in 0..Len(els)] == IF i = 0 THEN Ret(<<>>) ELSE Step(V[i - 1], els[i])
    IN  V[Len(els)]

get_elements_by_category(element_bicats, elements, doc) ==
    LET \* x.Category is None for an element that has no category
        Step(acc, x) ==
            IF acc.kind = "raise" THEN acc
            ELSE IF x.Category = None THEN Exc(Error("AttributeError"))
            ELSE IF \E k \in DOMAIN element_bicats :
                        element_bicats[k] = get_builtincategory(Str(x.Category.Name), None).value
            THEN Ret(Append(acc.value, x))
            ELSE acc
        V[i \in 0..Len(elements.l)] ==
            IF i = 0 THEN Ret(<<>>) ELSE Step(V[i - 1], elements.l[i])
        \* ElementCategoryFilter, or-ed, on the elements of the document
        Passes(x) ==
            /\ x.Category # None
            /\ \E k \in DOMAIN element_bicats : element_bicats[k].v = x.Category.Id.v
            /\ ~x.IsElementType
    IN  \* `if elements:` is false for None and for an empty list alike
        IF elements # None /\ elements.l # <<>>
        THEN V[Len(elements.l)]
        ELSE IF element_bicats = <<>>
        THEN Exc(Error("ArgumentException"))
        ELSE Ret(Filter(DocOf(doc).elements, Passes))

get_pointclouds(doc) ==
    get_elements_by_category(<<BuiltIn(0 - 4)>>, None, doc)

get_element_categories(elements) ==
    IF \E i \in DOMAIN elements : elements[i].Category = None
    THEN Exc(Error("AttributeError"))
    ELSE LET \* a dict keeps the last category stored under each name
             Last(n) == CHOOSE i \in DOMAIN elements :
                            /\ elements[i].Category.Name = n
                            /\ \A j \in DOMAIN elements :
                                   elements[j].Category.Name = n => j <= i
         IN  Ret({elements[Last(n)].Category :
                     n \in {elements[i].Category.Name : i \in DOMAIN elements}})

(***************************************************************************)
(* The shared-parameter definition file of the host application.           *)
(***************************************************************************)
\* get_sharedparam_definition_file opening the file before it looks at the
\* filename
get_sharedparam_definition_file_opening_first ==
    LET sparamf == app.SharedParameterFile
    IN  IF sparamf # None
        THEN RetC(sparamf, <<"OpenSharedParameterFile">>)
        ELSE IF app.SharedParametersFilename # ""
        THEN ExcC(PyRevitException("Failed opening Shared Parameters file."),
                  <<"OpenSharedParameterFile">>)
        ELSE ExcC(PyRevitException("No Shared Parameters file defined."),
                  <<"OpenSharedParameterFile">>)

get_sharedparam_definition_file ==
    IF app.SharedParametersFilename # ""
    THEN LET sparamf == app.SharedParameterFile
         IN  IF sparamf # None
             THEN RetC(sparamf, <<"OpenSharedParameterFile">>)
             ELSE ExcC(PyRevitException("Failed opening Shared Parameters file."),
                       <<"OpenSharedParameterFile">>)
    ELSE ExcC(PyRevitException("No Shared Parameters file defined."), <<>>)

get_defined_sharedparams ==
    LET f == get_sharedparam_definition_file
    IN  IF f.kind = "raise" THEN f
        ELSE RetC(Concat([g \in DOMAIN f.value.Groups |-> f.value.Groups[g].Definitions]),
                  f.calls)

(***************************************************************************)
(* Links.                                                                  *)
(***************************************************************************)
\* a member of DB.ExternalFileReferenceType is an object, hence truthy;
\* only None takes the else branch of `if linktype:`
Truthy(x) == x # None

RefType(n) == [t |-> "reftype", name |-> n]

ExternalRef(link, extRef) == [t |-> "ExternalRef", link |-> link, extref |-> extRef]

\* the try block of get_links: the transmission data is read and the list
\* is built; any exception of the host leaves the block
read_links(linktype, doc) ==
    LET d == DocOf(doc)
        transData == d.TransmissionData
        refs == transData.refs
        \* the loop body on one reference: the host raises on a faulty one
        Step(acc, ref) ==
            IF acc.kind = "raise" THEN acc
            ELSE IF ref.faulty
            THEN ExcC(Error("HostException"),
                      Append(acc.calls, "GetLastSavedReferenceData"))
            ELSE LET calls == acc.calls \o <<"GetLastSavedReferenceData", "GetElement">>
                     link == [t |-> "link", Id |-> ref.Id]
                 IN  IF Truthy(linktype)
                     THEN IF ref.ExternalFileReferenceType = linktype
                          THEN RetC(Append(acc.value, ExternalRef(link, ref)), calls)
                          ELSE RetC(acc.value, calls)
                     ELSE RetC(Append(acc.value, ExternalRef(link, ref)), calls)
        V[i \in 0..Len(refs)] ==
            IF i = 0
            THEN RetC(<<>>, <<"ConvertUserVisiblePathToModelPath", "ReadTransmissionData",
                             "GetAllExternalFileReferenceIds">>)
            ELSE Step(V[i - 1], refs[i])
    IN  IF ~transData.readable
        THEN ExcC(Error("HostException"),
                  <<"ConvertUserVisiblePathToModelPath", "ReadTransmissionData">>)
        ELSE V[Len(refs)]

\* get_links with the try block left unprotected
get_links_unprotected(linktype, doc) ==
    LET d == DocOf(doc)
    IN  IF d.PathName = ""
        THEN Exc(PyRevitException("PathName is empty. Model is not saved."))
        ELSE IF d.ModelPath = None
        THEN ExcC(PyRevitException("Model is not saved. Can not read links."),
                  <<"ConvertUserVisiblePathToModelPath">>)
        ELSE read_links(linktype, doc)

get_links(linktype, doc) ==
    LET d == DocOf(doc)
        location == d.PathName
        modelPath == d.ModelPath
        body == read_links(linktype, doc)
    IN  IF location = ""
        THEN Exc(PyRevitException("PathName is empty. Model is not saved."))
        ELSE IF modelPath = None
        THEN ExcC(PyRevitException("Model is not saved. Can not read links."),
                  <<"ConvertUserVisiblePathToModelPath">>)
        ELSE IF body.kind = "raise"
        THEN \* except Exception as e: raise PyRevitException(...)
             ExcC(PyRevitException("Error reading links from model path"), body.calls)
        ELSE body

get_linked_models(doc, loaded_only) ==
    LET linkedmodels == get_links(RefType("RevitLink"), doc)
        Loaded(x) == x.extref.loaded
    IN  IF linkedmodels.kind = "raise" THEN linkedmodels
        ELSE IF loaded_only
        THEN RetC(Filter(linkedmodels.value, Loaded), linkedmodels.calls)
        ELSE linkedmodels

(***************************************************************************)
(* Grids and grid points.                                                  *)
(***************************************************************************)
\* the documents of the link instances of the ACTIVE document (the doc of
\* the caller is not passed on by get_all_grids); None for an unloaded link
get_all_linkeddocs(doc) == DocOf(doc).linkdocs

GridsOf(tdoc) == IF tdoc = None THEN <<>> ELSE docs[tdoc.id].grids

get_all_grids(group_by_direction, include_linked_models, doc) ==
    LET linked == IF include_linked_models THEN get_all_linkeddocs(None) ELSE <<>>
        target_docs == <<(IF doc = None THEN [t |-> "doc", id |-> "active"] ELSE doc)>> \o linked
        all_grids == Concat([i \in DOMAIN target_docs |-> GridsOf(target_docs[i])])
        direcs == {all_grids[i].Direction : i \in DOMAIN all_grids}
        Along(direc) == LET Same(x) == x.Direction = direc IN Filter(all_grids, Same)
    IN  IF group_by_direction
        THEN Ret([direc \in direcs |-> Along(direc)])
        ELSE Ret(all_grids)

\* grid1.Curve.Intersect(grid2.Curve, results): the db.XYZPoint of
\* results.get_Item(0) when the comparison is Overlap, None otherwise
Intersect(grid1, grid2) == grid1.Curve[grid2.Id]

GridPoint(point, grids) == [point |-> point, grids |-> grids]

\* get_gridpoints keeping the first pair found at a point
get_gridpoints_keeping_first(grids, include_linked_models, doc) ==
    LET source_grids == IF grids # None /\ grids.l # <<>>
                        THEN grids.l
                        ELSE get_all_grids(FALSE, include_linked_models, doc).value
        n == Len(source_grids)
        G1(k) == source_grids[((k - 1) \div n) + 1]
        G2(k) == source_grids[((k - 1) % n) + 1]
        gints[k \in 0..(n * n)] ==
            IF k = 0 THEN {}
            ELSE LET p == Intersect(G1(k), G2(k))
                 IN  IF p # None /\ \A it \in gints[k - 1] : it.point # p
                     THEN gints[k - 1] \cup {GridPoint(p, <<G1(k), G2(k)>>)}
                     ELSE gints[k - 1]
    IN  Ret(gints[n * n])

get_gridpoints(grids, include_linked_models, doc) ==
    LET source_grids == IF grids # None /\ grids.l # <<>>
                        THEN grids.l
                        ELSE get_all_grids(FALSE, include_linked_models, doc).value
        n == Len(source_grids)
        \* the dict after k steps of the two nested loops, as the set of its
        \* items; step k is the pair (grid1, grid2) below
        G1(k) == source_grids[((k - 1) \div n) + 1]
        G2(k) == source_grids[((k - 1) % n) + 1]
        gints[k \in 0..(n * n)] ==
            IF k = 0 THEN {}
            ELSE LET p == Intersect(G1(k), G2(k))
                 IN  IF p # None
                     THEN {it \in gints[k - 1] : it.point # p}
                              \cup {GridPoint(p, <<G1(k), G2(k)>>)}
                     ELSE gints[k - 1]
    IN  Ret(gints[n * n])

\* the square of a.DistanceTo(b): the comparisons of distances are those of
\* their squares
Dist2(a, b) == (a.X - b.X) * (a.X - b.X) + (a.Y - b.Y) * (a.Y - b.Y)

\* get_closest_gridpoint comparing with <= instead of <
get_closest_gridpoint_or_equal(element, gridpoints) ==
    LET D(gp) == Dist2(gp.point, element.Location)
        dist[i \in 0..Len(gridpoints)] ==
            IF i = 0 THEN <<D(gridpoints[1]), gridpoints[1]>>
            ELSE IF D(gridpoints[i]) <= dist[i - 1][1]
                 THEN <<D(gridpoints[i]), gridpoints[i]>>
                 ELSE dist[i - 1]
    IN  IF gridpoints = <<>> THEN Exc(Error("IndexError"))
        ELSE Ret(dist[Len(gridpoints)][2])

get_closest_gridpoint(element, gridpoints) ==
    LET D(gp) == Dist2(gp.point, element.Location)
        \* dist after the first i members: <<distance, gridpoint>>
        dist[i \in 0..Len(gridpoints)] ==
            IF i = 0 THEN <<D(gridpoints[1]), gridpoints[1]>>
            ELSE IF D(gridpoints[i]) < dist[i - 1][1]
                 THEN <<D(gridpoints[i]), gridpoints[i]>>
                 ELSE dist[i - 1]
    IN  IF gridpoints = <<>> THEN Exc(Error("IndexError"))
        ELSE Ret(dist[Len(gridpoints)][2])

(***************************************************************************)
(* Category sets.  NewCategorySet() makes an object of the application,    *)
(* outside every document; the set is built and returned.                  *)
(***************************************************************************)
\* doc.Settings.Categories.get_Item(builtin_cat)
get_Item(doc, builtin_cat) ==
    LET Numbered(cat) == cat.Id.v = builtin_cat.v
    IN  First(DocOf(doc).cats, Numbered)

\* hostRejects: whether the host raises on inserting a category it did not
\* find (the alternative is that the insertion is ignored)
get_category_set(category_list, doc, hostRejects) ==
    LET found == {get_Item(doc, category_list[i]) : i \in DOMAIN category_list}
    IN  IF None \in found /\ hostRejects
        THEN Exc(Error("HostException"))
        ELSE Ret(found \ {None})

get_all_category_set(bindable, doc) ==
    LET cats == DocOf(doc).cats
    IN  Ret({cats[i] : i \in {j \in DOMAIN cats : bindable => cats[j].AllowsBoundParameters}})

get_category_schedules(category_or_catname, doc) ==
    LET cat == get_category(category_or_catname, None).value
        scheds == get_all_schedules(doc)
        OfCat(x) == x.CategoryId = cat.Id
    IN  \* cat.Id is read once for each schedule: None has no Id
        IF cat = None /\ scheds # <<>>
        THEN Exc(Error("AttributeError"))
        ELSE Ret(Filter(scheds, OfCat))

(***************************************************************************)
(* Collectors by class, category and family.                               *)
(***************************************************************************)
OST_Revisions == 0 - 6

OST_Sheets == 0 - 7

OfCategory(doc, bic) ==
    LET Is(x) == x.Category # None /\ x.Category.Id.v = bic /\ ~x.IsElementType
    IN  Filter(DocOf(doc).elements, Is)

OfClass(doc, class) ==
    LET Is(x) == x.Class = class /\ ~x.IsElementType
    IN  Filter(DocOf(doc).elements, Is)

get_revisions(doc) == Ret(OfCategory(doc, OST_Revisions))

get_sheets(include_placeholders, doc) ==
    LET sheets == OfCategory(doc, OST_Sheets)
        Real(x) == ~x.IsPlaceholder
    IN  IF ~include_placeholders THEN Ret(Filter(sheets, Real)) ELSE Ret(sheets)

get_rule_filters(doc) == Ret(OfClass(doc, "ParameterFilterElement"))

get_sheet_sets(doc) == Ret(OfClass(doc, "ViewSheetSet"))

get_all_linkedmodels(doc) ==
    LET Is(x) == x.Class = "RevitLinkType"
    IN  Ret(Filter(DocOf(doc).elements, Is))

\* the filter of the elements whose built-in parameters equal the given
\* strings; bip_paramvalue_dict is the sequence of the dict's items
get_biparam_stringequals_filter(bip_paramvalue_dict) ==
    IF bip_paramvalue_dict # <<>>
    THEN Ret(bip_paramvalue_dict)
    ELSE Exc(PyRevitException("Error creating filters."))

PassesFilter(x, rules) ==
    \A i \in DOMAIN rules :
        \/ rules[i][1] = "SYMBOL_FAMILY_NAME_PARAM" /\ x.FamilyName = rules[i][2]
        \/ rules[i][1] = "SYMBOL_NAME_PARAM" /\ x.SymbolName = rules[i][2]

get_family(family_name, doc) ==
    LET rules == get_biparam_stringequals_filter(<<<<"SYMBOL_FAMILY_NAME_PARAM", family_name>>>>)
        Is(x) == PassesFilter(x, rules.value) /\ x.IsElementType
    IN  IF rules.kind = "raise" THEN rules ELSE Ret(Filter(DocOf(doc).elements, Is))

get_elements_by_family(family_name, doc) ==
    LET rules == get_biparam_stringequals_filter(<<<<"SYMBOL_FAMILY_NAME_PARAM", family_name>>>>)
        Is(x) == PassesFilter(x, rules.value) /\ ~x.IsElementType
    IN  IF rules.kind = "raise" THEN rules ELSE Ret(Filter(DocOf(doc).elements, Is))

get_elements_by_familytype(family_name, symbol_name, doc) ==
    LET rules == get_biparam_stringequals_filter(
                     <<<<"SYMBOL_FAMILY_NAME_PARAM", family_name>>,
                       <<"SYMBOL_NAME_PARAM", symbol_name>>>>)
        Is(x) == PassesFilter(x, rules.value) /\ ~x.IsElementType
    IN  IF rules.kind = "raise" THEN rules ELSE Ret(Filter(DocOf(doc).elements, Is))

model_has_family(family_name, doc) ==
    LET collector == get_family(family_name, doc)
    IN  IF collector.kind = "raise" THEN collector ELSE Ret(Len(collector.value) > 0)

(***************************************************************************)
(* The host objects the documents are drawn from.                          *)
(***************************************************************************)
DocRef(d) == [t |-> "doc", id |-> d]

WorksetPool ==
    {[Id |-> 1, Name |-> <<"A">>],
     [Id |-> 2, Name |-> <<"A", "B">>],
     [Id |-> 3, Name |-> <<"B">>]}

WorksetNames == {<<"A">>, <<"A", "B">>, <<"B">>, <<"C">>}

WorksetRequests ==
    {Str(n) : n \in WorksetNames}
        \cup {List(l) : l \in SeqsUpTo({<<"A">>, <<"C">>}, MaxLen)}
        \cup {PyInt(0)}

View(id, name, type, template) ==
    [Id |-> id, ViewName |-> name, ViewType |-> type, IsTemplate |-> template,
     ViewSpecific |-> FALSE]

ViewPool ==
    {View(11, "Plan", "FloorPlan", FALSE),
     View(12, "Plan", "FloorPlan", TRUE),
     View(13, "Key", "Legend", FALSE),
     View(14, "Browser", "ProjectBrowser", FALSE)}

ViewNames == {"Plan", "Key", "Browser", "Zed"}

Field(id, name) == [FieldId |-> id, Name |-> name]

FieldPool == {Field(1, "Mark"), Field(2, "Level"), Field(3, "Mark")}

FieldNames == {"Mark", "Level", "Zed"}

ScheduleFilter(id, v) == [FieldId |-> id, Value |-> v]

FilterPool == {ScheduleFilter(1, "x"), ScheduleFilter(2, "x"), ScheduleFilter(1, "y")}

Schedule(id, catid, fields, filters) ==
    [Id |-> id, CategoryId |-> ElementId(catid), fields |-> fields, filters |-> filters]

BindingPool ==
    {[name |-> "Zone", Id |-> ElementId(31)],
     [name |-> "Phase", Id |-> ElementId(32)]}

BindingKeys ==
    {Str("Zone"), Str("Phase"), Str("Zed"), ElementId(31), ElementId(39)}

Category(name, id, bindable, subs) ==
    [t |-> "cat", Name |-> name, Id |-> ElementId(id),
     AllowsBoundParameters |-> bindable, SubCategories |-> subs]

Walls == Category("Walls", 0 - 2, TRUE, <<Category("Edges", 0 - 5, FALSE, <<>>)>>)

Grids == Category("Grids", 0 - 3, TRUE, <<>>)

PointClouds == Category("Point Clouds", 0 - 4, FALSE, <<>>)

\* an imported category: its id is no built-in category
Imported == Category("site.dwg", 7, FALSE, <<Category("Layer0", 8, FALSE, <<>>)>>)

CatPool == {Walls, Grids, PointClouds, Imported}

CategoryKeys ==
    {Str(n) : n \in {"Walls", "Edges", "Layer0", "Zed"}}
        \cup {BuiltIn(v) : v \in {0 - 2, 0 - 5, 0 - 1}}
        \cup {Grids, PyInt(0)}

BuiltInCategoryKeys ==
    {Str(n) : n \in {"Walls", "Edges", "Layer0", "Zed"}}
        \cup {ElementId(v) : v \in {0 - 2, 7, 0}}
        \cup {PyInt(0)}

EmptyDoc ==
    [PathName |-> "",
     ModelPath |-> None,
     TransmissionData |-> [readable |-> FALSE, refs |-> <<>>],
     worksets |-> <<>>,
     views |-> <<>>,
     schedules |-> <<>>,
     bindings |-> <<>>,
     cats |-> <<>>,
     elements |-> <<>>,
     linkdocs |-> <<>>,
     grids |-> <<>>]

NoApp == [SharedParametersFilename |-> "", SharedParameterFile |-> None]

NoCall == [op |-> "none", args |-> <<>>, kind |-> "none", value |-> None, exc |-> None]

\* a second document, open beside the active one
OtherDoc ==
    [EmptyDoc EXCEPT
        !.worksets = <<[Id |-> 2, Name |-> <<"A", "B">>]>>,
        !.views = <<View(13, "Key", "Legend", FALSE)>>,
        !.bindings = <<[name |-> "Zone", Id |-> ElementId(31)]>>,
        !.cats = <<Imported>>,
        !.elements = <<[Id |-> 90, Class |-> "FamilyInstance", IsElementType |-> FALSE,
                        Category |-> Walls, params |-> <<>>,
                        Location |-> [X |-> 1, Y |-> 0], FamilyName |-> "Door",
                        SymbolName |-> "Single", IsPlaceholder |-> FALSE]>>]

\* the documents of the lookups: one host collection is populated
LookupDocs ==
    {[EmptyDoc EXCEPT !.worksets = w] : w \in InjSeqs(WorksetPool, MaxLen)}
        \cup {[EmptyDoc EXCEPT !.views = v] : v \in InjSeqs(ViewPool, MaxLen)}
        \cup {[EmptyDoc EXCEPT !.schedules = <<Schedule(21, 0 - 2, f, g)>>] :
                 f \in InjSeqs(FieldPool, MaxLen), g \in InjSeqs(FilterPool, MaxLen)}
        \cup {[EmptyDoc EXCEPT !.bindings = b] : b \in InjSeqs(BindingPool, MaxLen)}
        \cup {[EmptyDoc EXCEPT !.cats = c] : c \in InjSeqs(CatPool, MaxLen)}

(***************************************************************************)
(* The calls.  A call leaves in ret its operation, arguments and outcome,  *)
(* and in log the host calls it made.                                      *)
(***************************************************************************)
Return(op, args, out) ==
    /\ ret' = [op |-> op, args |-> args, kind |-> out.kind, value |-> out.value,
               exc |-> out.exc]
    /\ log' = out.calls

FindWorkset ==
    \E req \in WorksetRequests, doc \in DocArgs, partial \in BOOLEAN :
        /\ Return("find_workset", [req |-> req, doc |-> doc, partial |-> partial],
                  find_workset(req, doc, partial))
        /\ UNCHANGED <<docs, app>>

ModelHasWorkset ==
    \E req \in WorksetRequests, doc \in DocArgs, partial \in BOOLEAN :
        /\ Return("model_has_workset", [req |-> req, doc |-> doc, partial |-> partial],
                  model_has_workset(req, partial, doc))
        /\ UNCHANGED <<docs, app>>

GetAllViews ==
    \E doc \in DocArgs, include_nongraphical \in BOOLEAN :
        /\ Return("get_all_views",
                  [doc |-> doc, include_nongraphical |-> include_nongraphical],
                  Ret(get_all_views(doc, include_nongraphical)))
        /\ UNCHANGED <<docs, app>>

GetViewByName ==
    \E view_name \in ViewNames, doc \in DocArgs :
        /\ Return("get_view_by_name", [view_name |-> view_name, doc |-> doc],
                  get_view_by_name(view_name, doc))
        /\ UNCHANGED <<docs, app>>

FindFirstLegend ==
    \E doc \in DocArgs :
        /\ Return("find_first_legend", [doc |-> doc], find_first_legend(doc))
        /\ UNCHANGED <<docs, app>>

GetAllSchedules ==
    \E doc \in DocArgs :
        /\ Return("get_all_schedules", [doc |-> doc], Ret(get_all_schedules(doc)))
        /\ UNCHANGED <<docs, app>>

\* the schedules a caller can hold: those of the open documents
OpenSchedules == UNION {Range(docs[d].schedules) : d \in DocIds}

GetScheduleField ==
    \E schedule \in OpenSchedules, field_name \in FieldNames :
        /\ Return("get_schedule_field", [schedule |-> schedule, field_name |-> field_name],
                  get_schedule_field(schedule, field_name))
        /\ UNCHANGED <<docs, app>>

GetScheduleFilters ==
    \E schedule \in OpenSchedules, field_name \in FieldNames, return_index \in BOOLEAN :
        /\ Return("get_schedule_filters",
                  [schedule |-> schedule, field_name |-> field_name,
                   return_index |-> return_index],
                  get_schedule_filters(schedule, field_name, return_index))
        /\ UNCHANGED <<docs, app>>

\* get_model_sharedparams emptying the bindings it walks over
GetModelSharedParamsDraining ==
    \E doc \in DocArgs :
        /\ Return("get_model_sharedparams", [doc |-> doc], Ret(get_model_sharedparams(doc)))
        /\ docs' = [docs EXCEPT ![IF doc = None THEN "active" ELSE doc.id].bindings = <<>>]
        /\ UNCHANGED app

GetModelSharedParams ==
    \E doc \in DocArgs :
        /\ Return("get_model_sharedparams", [doc |-> doc], Ret(get_model_sharedparams(doc)))
        /\ UNCHANGED <<docs, app>>

GetSharedParamId ==
    \E key \in BindingKeys :
        /\ key.t = "str"
        /\ Return("get_sharedparam_id", [param_name |-> key.s],
                  get_sharedparam_id(key.s))
        /\ UNCHANGED <<docs, app>>

GetModelSharedParam ==
    \E key \in BindingKeys, doc \in DocArgs :
        /\ Return("get_model_sharedparam", [key |-> key, doc |-> doc],
                  get_model_sharedparam(key, doc))
        /\ UNCHANGED <<docs, app>>

ModelHasSharedParam ==
    \E key \in BindingKeys, doc \in DocArgs :
        /\ Return("model_has_sharedparam", [key |-> key, doc |-> doc],
                  model_has_sharedparam(key, doc))
        /\ UNCHANGED <<docs, app>>

GetDocCategories ==
    \E doc \in DocArgs :
        /\ Return("get_doc_categories", [doc |-> doc], Ret(get_doc_categories(doc)))
        /\ UNCHANGED <<docs, app>>

GetCategory ==
    \E key \in CategoryKeys, doc \in DocArgs :
        /\ Return("get_category", [key |-> key, doc |-> doc], get_category(key, doc))
        /\ UNCHANGED <<docs, app>>

GetBuiltinCategory ==
    \E key \in BuiltInCategoryKeys, doc \in DocArgs :
        /\ Return("get_builtincategory", [key |-> key, doc |-> doc],
                  get_builtincategory(key, doc))
        /\ UNCHANGED <<docs, app>>

(***************************************************************************)
(* The lookups.                                                            *)
(***************************************************************************)
InitLookup ==
    /\ docs \in {[d \in DocIds |-> IF d = "active" THEN a ELSE OtherDoc] : a \in LookupDocs}
    /\ app = NoApp
    /\ ret = NoCall
    /\ log = <<>>

\* a single call, made on a fresh session
Fresh == ret = NoCall

NextLookup ==
    \/ Fresh /\ FindWorkset
    \/ Fresh /\ ModelHasWorkset
    \/ Fresh /\ GetAllViews
    \/ Fresh /\ GetViewByName
    \/ Fresh /\ FindFirstLegend
    \/ Fresh /\ GetAllSchedules
    \/ Fresh /\ GetScheduleField
    \/ Fresh /\ GetScheduleFilters
    \/ Fresh /\ GetModelSharedParams
    \/ Fresh /\ GetSharedParamId
    \/ Fresh /\ GetModelSharedParam
    \/ Fresh /\ ModelHasSharedParam
    \/ Fresh /\ GetDocCategories
    \/ Fresh /\ GetCategory
    \/ Fresh /\ GetBuiltinCategory

SpecLookup == InitLookup /\ [][NextLookup]_vars

(***************************************************************************)
(* Schedules of a category.                                                *)
(***************************************************************************)
SchedulePool ==
    {Schedule(21, 0 - 2, <<Field(1, "Mark")>>, <<>>),
     Schedule(22, 0 - 3, <<>>, <<>>),
     Schedule(23, 7, <<>>, <<>>)}

ScheduleDocs ==
    {[EmptyDoc EXCEPT !.schedules = sc, !.cats = c] :
        sc \in InjSeqs(SchedulePool, MaxLen), c \in InjSeqs(CatPool, MaxLen)}

GetCategorySchedules ==
    \E key \in CategoryKeys, doc \in DocArgs :
        /\ Return("get_category_schedules", [key |-> key, doc |-> doc],
                  get_category_schedules(key, doc))
        /\ UNCHANGED <<docs, app>>

InitSchedules ==
    /\ docs \in {[d \in DocIds |-> IF d = "active" THEN a ELSE OtherDoc] : a \in ScheduleDocs}
    /\ app = NoApp
    /\ ret = NoCall
    /\ log = <<>>

NextSchedules ==
    \/ Fresh /\ GetCategorySchedules
    \/ Fresh /\ GetCategory
    \/ Fresh /\ GetAllSchedules

SpecSchedules == InitSchedules /\ [][NextSchedules]_vars

(***************************************************************************)
(* Parameter scans.                                                        *)
(***************************************************************************)
BaseElement ==
    [Id |-> 0, Class |-> "FamilyInstance", IsElementType |-> FALSE, Category |-> None,
     params |-> <<>>, Location |-> [X |-> 0, Y |-> 0], FamilyName |-> "",
     SymbolName |-> "", IsPlaceholder |-> FALSE]

Param(name, storage, value) == [Name |-> name, StorageType |-> storage, value |-> value]

ParamPool ==
    {Param("Mark", "String", Str(<<"a">>)),
     Param("Mark", "String", Str(<<"a", "b">>)),
     Param("Mark", "String", Str(<<" ">>)),
     Param("Mark", "String", Str(<<>>)),
     Param("Mark", "String", Str(<<"N", "o", "n", "e">>)),
     Param("Mark", "String", None),
     Param("Mark", "Integer", PyInt(1)),
     Param("Mark", "Double", PyFloat(3)),
     Param("Mark", "ElementId", ElementId(0 - 1)),
     Param("Mark", "None", None),
     Param("Area", "String", Str(<<"a">>))}

\* the elements of the parameter scans: each has one parameter; one is an
\* element type
ParamElements ==
    {[BaseElement EXCEPT !.params = <<p>>] : p \in ParamPool}
        \cup {[BaseElement EXCEPT !.params = <<Param("Mark", "String", Str(<<"t">>))>>,
                                  !.IsElementType = TRUE]}

\* the objects at the positions of a collection are distinct: each gets its
\* position as its element id
Numbered(shapes) == [i \in DOMAIN shapes |-> [shapes[i] EXCEPT !.Id = i]]

ParamDocs ==
    {[EmptyDoc EXCEPT !.elements = Numbered(e)] : e \in SeqsUpTo(ParamElements, MaxLen)}

ParamNames == {"Mark", "Zed"}

ParamValues == {Str(<<"a">>), Str(<<" ">>), None, PyInt(1), ElementId(0 - 1)}

GetAllElements ==
    \E doc \in DocArgs :
        /\ Return("get_all_elements", [doc |-> doc], Ret(get_all_elements(doc)))
        /\ UNCHANGED <<docs, app>>

\* the parameters a caller can hold: those of the elements of the documents
OpenElements == UNION {Range(docs[d].elements) : d \in DocIds}

GetParamValue ==
    \E el \in OpenElements :
        \E i \in DOMAIN el.params :
            /\ Return("get_param_value", [targetparam |-> el.params[i]],
                      get_param_value(el.params[i]))
            /\ UNCHANGED <<docs, app>>

GetValueRange ==
    \E param_name \in ParamNames, doc \in DocArgs :
        /\ Return("get_value_range", [param_name |-> param_name, doc |-> doc],
                  get_value_range(param_name, doc))
        /\ UNCHANGED <<docs, app>>

GetElementsByParameter ==
    \E param_name \in ParamNames, param_value \in ParamValues, doc \in DocArgs,
       partial \in BOOLEAN :
        /\ Return("get_elements_by_parameter",
                  [param_name |-> param_name, param_value |-> param_value, doc |-> doc,
                   partial |-> partial],
                  get_elements_by_parameter(param_name, param_value, doc, partial))
        /\ UNCHANGED <<docs, app>>

InitParams ==
    /\ docs \in {[d \in DocIds |-> IF d = "active" THEN a ELSE OtherDoc] : a \in ParamDocs}
    /\ app = NoApp
    /\ ret = NoCall
    /\ log = <<>>

NextParams ==
    \/ Fresh /\ GetAllElements
    \/ Fresh /\ GetParamValue
    \/ Fresh /\ GetValueRange
    \/ Fresh /\ GetElementsByParameter

SpecParams == InitParams /\ [][NextParams]_vars

(***************************************************************************)
(* Elements of given categories.                                           *)
(***************************************************************************)
CategoryElements ==
    {[BaseElement EXCEPT !.Category = c] : c \in {Walls, Grids, Imported, None}}
        \cup {[BaseElement EXCEPT !.Category = Walls, !.IsElementType = TRUE]}

CategoryTables == {<<>>, <<Grids>>, <<Walls, Grids, PointClouds, Imported>>}

CategoryDocs ==
    {[EmptyDoc EXCEPT !.elements = Numbered(e), !.cats = c] :
        e \in SeqsUpTo(CategoryElements, MaxLen), c \in CategoryTables}

BicatLists == InjSeqs({BuiltIn(0 - 2), BuiltIn(0 - 3)}, MaxLen)

GetElementsByCategory ==
    \E element_bicats \in BicatLists,
       elements \in {None} \cup {List(l) : l \in InjSeqs(OpenElements, MaxLen)},
       doc \in DocArgs :
        /\ Return("get_elements_by_category",
                  [element_bicats |-> element_bicats, elements |-> elements, doc |-> doc],
                  get_elements_by_category(element_bicats, elements, doc))
        /\ UNCHANGED <<docs, app>>

GetPointClouds ==
    \E doc \in DocArgs :
        /\ Return("get_pointclouds", [doc |-> doc], get_pointclouds(doc))
        /\ UNCHANGED <<docs, app>>

GetElementCategories ==
    \E elements \in InjSeqs(OpenElements, MaxLen) :
        /\ Return("get_element_categories", [elements |-> elements],
                  get_element_categories(elements))
        /\ UNCHANGED <<docs, app>>

InitCategories ==
    /\ docs \in {[d \in DocIds |-> IF d = "active" THEN a ELSE OtherDoc] : a \in CategoryDocs}
    /\ app = NoApp
    /\ ret = NoCall
    /\ log = <<>>

NextCategories ==
    \/ Fresh /\ GetElementsByCategory
    \/ Fresh /\ GetBuiltinCategory
    \/ Fresh /\ GetPointClouds
    \/ Fresh /\ GetElementCategories

SpecCategories == InitCategories /\ [][NextCategories]_vars

(***************************************************************************)
(* Links of a saved document.                                              *)
(***************************************************************************)
Ref(id, type, loaded, faulty) ==
    [Id |-> id, ExternalFileReferenceType |-> RefType(type), loaded |-> loaded,
     faulty |-> faulty]

RefPool ==
    {Ref(41, "RevitLink", TRUE, FALSE),
     Ref(42, "RevitLink", FALSE, FALSE),
     Ref(43, "CADLink", TRUE, FALSE),
     Ref(44, "RevitLink", TRUE, TRUE)}

LinkDocs ==
    {[EmptyDoc EXCEPT !.PathName = path, !.ModelPath = mp,
                      !.TransmissionData = [readable |-> rd, refs |-> refs]] :
        path \in {"", "C:/model.rvt"},
        mp \in {None, [t |-> "ModelPath"]},
        rd \in BOOLEAN,
        refs \in InjSeqs(RefPool, MaxLen)}

LinkTypes == {None, RefType("RevitLink"), RefType("CADLink")}

GetLinks ==
    \E linktype \in LinkTypes, doc \in DocArgs :
        /\ Return("get_links", [linktype |-> linktype, doc |-> doc],
                  get_links(linktype, doc))
        /\ UNCHANGED <<docs, app>>

GetLinkedModels ==
    \E doc \in DocArgs, loaded_only \in BOOLEAN :
        /\ Return("get_linked_models", [doc |-> doc, loaded_only |-> loaded_only],
                  get_linked_models(doc, loaded_only))
        /\ UNCHANGED <<docs, app>>

InitLinks ==
    /\ docs \in {[d \in DocIds |-> IF d = "active" THEN a ELSE OtherDoc] : a \in LinkDocs}
    /\ app = NoApp
    /\ ret = NoCall
    /\ log = <<>>

NextLinks ==
    \/ Fresh /\ GetLinks
    \/ Fresh /\ GetLinkedModels

SpecLinks == InitLinks /\ [][NextLinks]_vars

(***************************************************************************)
(* The shared-parameter file.                                              *)
(***************************************************************************)
DefinitionPool == {"d1", "d2"}

GroupPool == {[Definitions |-> d] : d \in InjSeqs(DefinitionPool, MaxLen)}

SharedParameterFiles ==
    {[t |-> "DefinitionFile", Groups |-> g] : g \in SeqsUpTo(GroupPool, MaxLen)}

Apps ==
    {[SharedParametersFilename |-> n, SharedParameterFile |-> f] :
        n \in {"", "C:/shared.txt"}, f \in {None} \cup SharedParameterFiles}

GetSharedParamDefinitionFile ==
    /\ Return("get_sharedparam_definition_file", <<>>, get_sharedparam_definition_file)
    /\ UNCHANGED <<docs, app>>

GetDefinedSharedParams ==
    /\ Return("get_defined_sharedparams", <<>>, get_defined_sharedparams)
    /\ UNCHANGED <<docs, app>>

InitSharedParams ==
    /\ docs = [d \in DocIds |-> IF d = "active" THEN EmptyDoc ELSE OtherDoc]
    /\ app \in Apps
    /\ ret = NoCall
    /\ log = <<>>

NextSharedParams ==
    \/ Fresh /\ GetSharedParamDefinitionFile
    \/ Fresh /\ GetDefinedSharedParams

SpecSharedParams == InitSharedParams /\ [][NextSharedParams]_vars

(***************************************************************************)
(* Grids: the grids 1..n of a session lie in the active document and in    *)
(* the other one, which the active document may link.                      *)
(***************************************************************************)
MaxGrids == 3

Point(x, y) == [X |-> x, Y |-> y]

\* the points grids cross in
HitPoints == {Point(0, 0), Point(1, 0)}

GridPairs(n) == {{i, j} : i \in 1..n, j \in 1..n} \ {{i} : i \in 1..n}

\* what the host answers for two curves: a curve does not Overlap itself
\* (the comparison is Equal), and the answer for two curves is the same in
\* both orders
Crossings(n) == [GridPairs(n) -> {None} \cup HitPoints]

Grid(i, n, x) ==
    [Id |-> i,
     Direction |-> IF i % 2 = 1 THEN "X" ELSE "Y",
     Curve |-> [j \in 1..n |-> IF i = j THEN None ELSE x[{i, j}]]]

LinkLists == {<<>>, <<None, DocRef("other")>>}

GridSessions ==
    UNION {
        {[d \in DocIds |->
            IF d = "active"
            THEN [EmptyDoc EXCEPT !.grids = [i \in 1..k |-> Grid(i, n, x)],
                                  !.linkdocs = l]
            ELSE [OtherDoc EXCEPT !.grids = [i \in 1..(n - k) |-> Grid(k + i, n, x)]]] :
            x \in Crossings(n), k \in 0..n, l \in LinkLists} :
        n \in 0..MaxGrids}

OpenGrids == UNION {Range(docs[d].grids) : d \in DocIds}

GetAllLinkedDocs ==
    \E doc \in DocArgs :
        /\ Return("get_all_linkeddocs", [doc |-> doc], Ret(get_all_linkeddocs(doc)))
        /\ UNCHANGED <<docs, app>>

GetAllGrids ==
    \E group_by_direction \in BOOLEAN, include_linked_models \in BOOLEAN, doc \in DocArgs :
        /\ Return("get_all_grids",
                  [group_by_direction |-> group_by_direction,
                   include_linked_models |-> include_linked_models, doc |-> doc],
                  get_all_grids(group_by_direction, include_linked_models, doc))
        /\ UNCHANGED <<docs, app>>

\* with grids given, the other two arguments are not read
GetGridPoints ==
    \E grids \in {None} \cup {List(l) : l \in InjSeqs(OpenGrids, MaxGrids)},
       include_linked_models \in BOOLEAN, doc \in DocArgs :
        /\ (grids # None /\ grids.l # <<>>) => (~include_linked_models /\ doc = None)
        /\ Return("get_gridpoints",
                  [grids |-> grids, include_linked_models |-> include_linked_models,
                   doc |-> doc],
                  get_gridpoints(grids, include_linked_models, doc))
        /\ UNCHANGED <<docs, app>>

InitGrids ==
    /\ docs \in GridSessions
    /\ app = NoApp
    /\ ret = NoCall
    /\ log = <<>>

NextGrids ==
    \/ Fresh /\ GetAllLinkedDocs
    \/ Fresh /\ GetAllGrids
    \/ Fresh /\ GetGridPoints

SpecGrids == InitGrids /\ [][NextGrids]_vars

(***************************************************************************)
(* The grid point closest to an element.                                   *)
(***************************************************************************)
LocatedElements ==
    {[BaseElement EXCEPT !.Location = p] : p \in {Point(0, 0), Point(1, 1), Point(2, 0)}}

GridPointPool ==
    {GridPoint(p, <<1, 2>>) : p \in {Point(0, 0), Point(1, 0), Point(0, 1)}}

ClosestDocs ==
    {[EmptyDoc EXCEPT !.elements = Numbered(e)] : e \in SeqsUpTo(LocatedElements, MaxLen)}

GetClosestGridPoint ==
    \E element \in OpenElements, gridpoints \in SeqsUpTo(GridPointPool, MaxLen) :
        /\ Return("get_closest_gridpoint", [element |-> element, gridpoints |-> gridpoints],
                  get_closest_gridpoint(element, gridpoints))
        /\ UNCHANGED <<docs, app>>

InitClosest ==
    /\ docs \in {[d \in DocIds |-> IF d = "active" THEN a ELSE OtherDoc] : a \in ClosestDocs}
    /\ app = NoApp
    /\ ret = NoCall
    /\ log = <<>>

NextClosest ==
    \/ Fresh /\ GetClosestGridPoint
    \/ Fresh /\ GetAllElements

SpecClosest == InitClosest /\ [][NextClosest]_vars

(***************************************************************************)
(* Sessions of any calls, in any order, on documents that hold something   *)
(* of every kind.                                                          *)
(***************************************************************************)
Sheets == Category("Sheets", OST_Sheets, TRUE, <<>>)

Revisions == Category("Revisions", OST_Revisions, FALSE, <<>>)

SampleElements ==
    Numbered(<<
        [BaseElement EXCEPT !.Category = Walls, !.FamilyName = "Door",
                            !.SymbolName = "Single",
                            !.params = <<Param("Mark", "String", Str(<<"a">>))>>],
        [BaseElement EXCEPT !.Class = "ViewSheet", !.Category = Sheets,
                            !.IsPlaceholder = TRUE,
                            !.params = <<Param("Mark", "None", None)>>]>>)

SampleDoc ==
    [PathName |-> "C:/model.rvt",
     ModelPath |-> [t |-> "ModelPath"],
     TransmissionData |->
         [readable |-> TRUE,
          refs |-> <<Ref(41, "RevitLink", TRUE, FALSE), Ref(43, "CADLink", TRUE, FALSE)>>],
     worksets |-> <<[Id |-> 1, Name |-> <<"A">>], [Id |-> 2, Name |-> <<"A", "B">>]>>,
     views |-> <<View(11, "Plan", "FloorPlan", FALSE), View(13, "Key", "Legend", FALSE)>>,
     schedules |-> <<Schedule(21, 0 - 2, <<Field(1, "Mark")>>, <<ScheduleFilter(1, "x")>>)>>,
     bindings |-> <<[name |-> "Zone", Id |-> ElementId(31)]>>,
     cats |-> <<Walls, Grids, Sheets, Revisions>>,
     elements |-> SampleElements,
     linkdocs |-> <<DocRef("other")>>,
     grids |-> <<Grid(1, 2, [pr \in GridPairs(2) |-> Point(0, 0)])>>]

SampleOther ==
    [OtherDoc EXCEPT !.grids = <<Grid(2, 2, [pr \in GridPairs(2) |-> Point(0, 0)])>>]

SampleApps ==
    {NoApp,
     [SharedParametersFilename |-> "C:/shared.txt",
      SharedParameterFile |->
          [t |-> "DefinitionFile", Groups |-> <<[Definitions |-> <<"d1", "d2">>]>>]]}

FamilyNames == {"Door", "Zed"}

\* the parameter of element x that the host identifies by param_id (the id
\* of a shared parameter element names the same parameter in every document)
ParameterOf(x, param_id) ==
    LET Is(p) == \E b \in BindingPool : b.Id = param_id /\ b.name = p.Name
    IN  First(x.params, Is)

\* the id comes from get_sharedparam_id(param_name), which is not given the
\* doc; the elements are collected from doc. The rule is FilterStringEquals,
\* case sensitive; FilterInverseRule negates it.
get_elements_by_shared_parameter(param_name, param_value, inverse, doc) ==
    LET param_id == get_sharedparam_id(param_name).value
        Equals(x) ==
            LET p == ParameterOf(x, param_id)
            IN  p # None /\ p.StorageType = "String" /\ p.value = Str(param_value)
        Passes(x) == IF inverse THEN ~Equals(x) ELSE Equals(x)
    IN  IF param_id # None
        THEN Ret(Filter(DocOf(doc).elements, Passes))
        ELSE Ret(None)

SharedParamNames == {"Zone", "Phase", "Zed"}

GetElementsBySharedParameter ==
    \E param_name \in SharedParamNames, param_value \in {<<"a">>, <<"b">>},
       inverse \in BOOLEAN, doc \in DocArgs :
        /\ Return("get_elements_by_shared_parameter",
                  [param_name |-> param_name, param_value |-> param_value,
                   inverse |-> inverse, doc |-> doc],
                  get_elements_by_shared_parameter(param_name, param_value, inverse, doc))
        /\ UNCHANGED <<docs, app>>

GetRevisions ==
    \E doc \in DocArgs :
        /\ Return("get_revisions", [doc |-> doc], get_revisions(doc))
        /\ UNCHANGED <<docs, app>>

GetSheets ==
    \E include_placeholders \in BOOLEAN, doc \in DocArgs :
        /\ Return("get_sheets", [include_placeholders |-> include_placeholders, doc |-> doc],
                  get_sheets(include_placeholders, doc))
        /\ UNCHANGED <<docs, app>>

GetRuleFilters ==
    \E doc \in DocArgs :
        /\ Return("get_rule_filters", [doc |-> doc], get_rule_filters(doc))
        /\ UNCHANGED <<docs, app>>

GetSheetSets ==
    \E doc \in DocArgs :
        /\ Return("get_sheet_sets", [doc |-> doc], get_sheet_sets(doc))
        /\ UNCHANGED <<docs, app>>

GetAllLinkedModels ==
    \E doc \in DocArgs :
        /\ Return("get_all_linkedmodels", [doc |-> doc], get_all_linkedmodels(doc))
        /\ UNCHANGED <<docs, app>>

GetFamily ==
    \E family_name \in FamilyNames, doc \in DocArgs :
        /\ Return("get_family", [family_name |-> family_name, doc |-> doc],
                  get_family(family_name, doc))
        /\ UNCHANGED <<docs, app>>

GetElementsByFamily ==
    \E family_name \in FamilyNames, doc \in DocArgs :
        /\ Return("get_elements_by_family", [family_name |-> family_name, doc |-> doc],
                  get_elements_by_family(family_name, doc))
        /\ UNCHANGED <<docs, app>>

GetElementsByFamilyType ==
    \E family_name \in FamilyNames, symbol_name \in {"Single", "Zed"}, doc \in DocArgs :
        /\ Return("get_elements_by_familytype",
                  [family_name |-> family_name, symbol_name |-> symbol_name, doc |-> doc],
                  get_elements_by_familytype(family_name, symbol_name, doc))
        /\ UNCHANGED <<docs, app>>

ModelHasFamily ==
    \E family_name \in FamilyNames, doc \in DocArgs :
        /\ Return("model_has_family", [family_name |-> family_name, doc |-> doc],
                  model_has_family(family_name, doc))
        /\ UNCHANGED <<docs, app>>

\* the set is made by the application (HOST_APP.app.Create) and filled with
\* categories of the document; the document is only read
GetCategorySet ==
    \E category_list \in BicatLists, doc \in DocArgs, hostRejects \in BOOLEAN :
        /\ Return("get_category_set", [category_list |-> category_list, doc |-> doc],
                  get_category_set(category_list, doc, hostRejects))
        /\ UNCHANGED <<docs, app>>

GetAllCategorySet ==
    \E bindable \in BOOLEAN, doc \in DocArgs :
        /\ Return("get_all_category_set", [bindable |-> bindable, doc |-> doc],
                  get_all_category_set(bindable, doc))
        /\ UNCHANGED <<docs, app>>

Init ==
    /\ docs = [d \in DocIds |-> IF d = "active" THEN SampleDoc ELSE SampleOther]
    /\ app \in SampleApps
    /\ ret = NoCall
    /\ log = <<>>

Next ==
    \/ GetAllElements
    \/ GetParamValue
    \/ GetValueRange
    \/ GetElementsByParameter
    \/ GetElementsByCategory
    \/ GetFamily
    \/ GetElementsByFamily
    \/ GetElementsByFamilyType
    \/ FindWorkset
    \/ ModelHasFamily
    \/ ModelHasWorkset
    \/ GetSharedParamDefinitionFile
    \/ GetDefinedSharedParams
    \/ GetModelSharedParams
    \/ GetSharedParamId
    \/ GetModelSharedParam
    \/ ModelHasSharedParam
    \/ GetRevisions
    \/ GetSheets
    \/ GetLinks
    \/ GetLinkedModels
    \/ FindFirstLegend
    \/ GetAllViews
    \/ GetAllSchedules
    \/ GetViewByName
    \/ GetDocCategories
    \/ GetCategory
    \/ GetBuiltinCategory
    \/ GetAllLinkedModels
    \/ GetAllLinkedDocs
    \/ GetAllGrids
    \/ GetGridPoints
    \/ GetClosestGridPoint
    \/ GetCategorySet
    \/ GetAllCategorySet
    \/ GetRuleFilters
    \/ GetElementCategories
    \/ GetCategorySchedules
    \/ GetScheduleField
    \/ GetScheduleFilters
    \/ GetSheetSets
    \/ GetPointClouds
    \/ GetElementsBySharedParameter

Spec == Init /\ [][Next]_vars

(***************************************************************************)
(* Calls on a document given explicitly, while the host's active document  *)
(* changes.                                                                *)
(***************************************************************************)
ZonedElements ==
    Numbered(<<
        [BaseElement EXCEPT !.Category = Walls,
                            !.params = <<Param("Zone", "String", Str(<<"a">>))>>],
        [BaseElement EXCEPT !.Category = Walls,
                            !.params = <<Param("Zone", "String", Str(<<"b">>))>>]>>)

\* the documents the host may have active
ActiveDocs ==
    {EmptyDoc,
     [EmptyDoc EXCEPT
         !.cats = <<Walls>>,
         !.bindings = <<[name |-> "Zone", Id |-> ElementId(31)]>>,
         !.linkdocs = <<DocRef("other")>>,
         !.grids = <<Grid(1, 2, [pr \in GridPairs(2) |-> Point(0, 0)])>>],
     [EmptyDoc EXCEPT
         !.cats = <<Grids, Imported>>,
         !.bindings = <<[name |-> "Phase", Id |-> ElementId(32)]>>,
         !.linkdocs = <<None>>]}

\* the documents passed as doc
GivenDocs ==
    {OtherDoc,
     [OtherDoc EXCEPT
         !.cats = <<Walls>>,
         !.schedules = <<Schedule(21, 0 - 2, <<>>, <<>>), Schedule(22, 0 - 3, <<>>, <<>>)>>,
         !.elements = ZonedElements,
         !.grids = <<Grid(2, 2, [pr \in GridPairs(2) |-> Point(0, 0)])>>]}

\* HOST_APP.doc: the host makes another document the active one
ActivateDocument ==
    \E a \in ActiveDocs :
        /\ a # docs["active"]
        /\ docs' = [docs EXCEPT !["active"] = a]
        /\ UNCHANGED <<app, ret, log>>

InitActive ==
    /\ docs \in {[d \in DocIds |-> IF d = "active" THEN a ELSE o] :
                    a \in ActiveDocs, o \in GivenDocs}
    /\ app = NoApp
    /\ ret = NoCall
    /\ log = <<>>

NextActive ==
    \/ Fresh /\ GetCategory
    \/ Fresh /\ GetBuiltinCategory
    \/ Fresh /\ GetCategorySchedules
    \/ Fresh /\ GetElementsBySharedParameter
    \/ Fresh /\ GetAllGrids
    \/ ActivateDocument

SpecActive == InitActive /\ [][NextActive]_vars

(***************************************************************************)
(* Properties.                                                             *)
(***************************************************************************)
Absent == ret.kind = "return" /\ ret.value = None

WorksetHit(w, req, partial) ==
    \/ req.t = "str" /\ ~partial /\ w.Name = req.s
    \/ req.t = "str" /\ partial /\ Contains(req.s, w.Name)
    \/ req.t = "list" /\ \E k \in DOMAIN req.l : Contains(req.l[k], w.Name)

\* the views get_view_by_name looks among
GraphicalViews(d) ==
    {v \in Range(d.views) :
        v.ViewType \in GRAPHICAL_VIEWTYPES /\ ~v.IsTemplate /\ ~v.ViewSpecific}

\* the categories and subcategories of a document
AllCategories(d) ==
    Range(d.cats) \cup UNION {Range(c.SubCategories) : c \in Range(d.cats)}

NothingFound ==
    LET a == ret.args
    IN  \/ /\ ret.op = "find_workset"
           /\ \A w \in Range(DocOf(a.doc).worksets) : ~WorksetHit(w, a.req, a.partial)
        \/ /\ ret.op = "get_view_by_name"
           /\ \A v \in GraphicalViews(DocOf(a.doc)) : v.ViewName # a.view_name
        \/ /\ ret.op = "get_schedule_field"
           /\ \A f \in Range(a.schedule.fields) : f.Name # a.field_name
        \/ /\ ret.op = "get_model_sharedparam"
           /\ \A b \in Range(DocOf(a.doc).bindings) :
                  /\ a.key.t = "str" => b.name # a.key.s
                  /\ a.key.t = "eid" => b.Id # a.key
        \/ /\ ret.op = "get_sharedparam_id"
           /\ \A b \in Range(docs["active"].bindings) : b.name # a.param_name
        \/ /\ ret.op = "get_category"
           /\ a.key.t # "cat"
           /\ \A c \in AllCategories(docs["active"]) :
                  /\ a.key.t = "str" => c.Name # a.key.s
                  /\ a.key.t = "bic" => c.Id.v # a.key.v
        \/ /\ ret.op = "get_builtincategory"
           /\ a.key.t = "str" =>
                  \A c \in AllCategories(docs["active"]) : c.Name # a.key.s
           /\ a.key.t = "eid" => a.key.v \notin BuiltInCategoryValues
        \/ /\ ret.op = "find_first_legend"
           /\ \A v \in Range(DocOf(a.doc).views) : v.ViewType # "Legend"

\* C1: a lookup that finds nothing returns an absent result and raises no
\* error: find_workset, get_view_by_name, get_schedule_field,
\* get_model_sharedparam, get_sharedparam_id, get_category,
\* get_builtincategory and find_first_legend return None when no item of the
\* collection they search matches the key (the empty collection included),
\* and get_schedule_filters returns an empty list when no field of the
\* schedule has the field name.
C1_NothingFoundIsAbsent ==
    /\ NothingFound => Absent
    /\ (/\ ret.op = "get_schedule_filters"
        /\ \A f \in Range(ret.args.schedule.fields) : f.Name # ret.args.field_name)
           => ret.kind = "return" /\ ret.value = <<>>

\* a view lookup that found nothing among the views of a document that has
\* views, one of them a template of the requested name
C1_Witness ==
    /\ ret.op = "get_view_by_name"
    /\ NothingFound
    /\ \E v \in Range(DocOf(ret.args.doc).views) : v.ViewName = ret.args.view_name
    /\ Absent

\* C4: when the category key names no category (get_category returns None),
\* get_category_schedules returns an empty list and raises no error,
\* whatever schedules the document has.
C4_NoCategoryGivesNoSchedules ==
    (/\ ret.op = "get_category_schedules"
     /\ get_category(ret.args.key, ret.args.doc).value = None)
        => ret.kind = "return" /\ ret.value = <<>>

\* C8: get_value_range and get_elements_by_parameter run to completion and
\* return a result whatever the storage type of a parameter they find, the
\* host's None storage type included.
C8_ScansReturn ==
    (\/ ret.op = "get_value_range"
     \/ /\ ret.op = "get_elements_by_parameter"
        /\ ret.args.param_value.t = "str")
        => ret.kind = "return"

\* the values of the parameter named n on the elements of d that are no
\* element types, whatever the storage type
ValuesOf(d, n) ==
    {p.value : p \in {LookupParameter(e, n) :
                         e \in {x \in Range(d.elements) : ~x.IsElementType}} \ {None}}

Meaningful(v) ==
    /\ v # None
    /\ lower(safe_strtype(v)) # <<"n", "o", "n", "e">>
    /\ ~(v.t = "str" /\ isspace(v.s))

\* C9: get_value_range returns the set of the distinct meaningful values of
\* the parameter: v is in the result iff some element that is no element
\* type has a parameter of that name with value v, v is not None, its text
\* lowercased is not 'none', and v is no string of whitespace only.
C9_RangeIsMeaningfulValues ==
    (ret.op = "get_value_range" /\ ret.kind = "return")
        => ret.value = {v \in ValuesOf(DocOf(ret.args.doc), ret.args.param_name) :
                           Meaningful(v)}

\* the list get_links is to return: an ExternalRef for each external
\* reference, or for those of the given type
LinksOf(d, linktype) ==
    LET Wanted(ref) == linktype = None \/ ref.ExternalFileReferenceType = linktype
        refs == Filter(d.TransmissionData.refs, Wanted)
    IN  [i \in DOMAIN refs |-> ExternalRef([t |-> "link", Id |-> refs[i].Id], refs[i])]

TransmissionCalls == {"ReadTransmissionData", "GetAllExternalFileReferenceIds",
                      "GetLastSavedReferenceData", "GetElement"}

\* C2: get_links raises PyRevitException when the PathName of the document
\* is empty or converts to no model path, before the transmission data is
\* read or an element fetched; an exception raised while the data is read
\* or the list built is raised again as PyRevitException; so a call ends by
\* returning the whole list (an ExternalRef for each external reference, or
\* for each of the given type) or by raising PyRevitException.
C2_LinksOrPyRevitException ==
    ret.op = "get_links" =>
        LET d == DocOf(ret.args.doc)
        IN  /\ (d.PathName = "" \/ d.ModelPath = None) =>
                   /\ ret.kind = "raise"
                   /\ ret.exc.t = "PyRevitException"
                   /\ Range(log) \cap TransmissionCalls = {}
            /\ ret.kind = "raise" => ret.exc.t = "PyRevitException"
            /\ ret.kind = "return" => ret.value = LinksOf(d, ret.args.linktype)
            /\ ret.kind \in {"raise", "return"}

\* the host failed on the second reference, after the first was listed
C2_Witness ==
    /\ ret.op = "get_links"
    /\ ret.kind = "raise"
    /\ ret.exc.t = "PyRevitException"
    /\ \E i \in DOMAIN log : log[i] = "GetElement"

\* C3: get_sharedparam_definition_file raises PyRevitException('No Shared
\* Parameters file defined.') without opening a file when the application
\* has no shared parameters filename, raises PyRevitException('Failed
\* opening Shared Parameters file.') when the filename is set and opening
\* yields nothing, and returns the opened file otherwise;
\* get_defined_sharedparams returns a list in the third case alone and
\* raises the same exception in the other two.
C3_SharedParameterFile ==
    ret.op \in {"get_sharedparam_definition_file", "get_defined_sharedparams"} =>
        /\ app.SharedParametersFilename = "" =>
               /\ ret.kind = "raise"
               /\ ret.exc = PyRevitException("No Shared Parameters file defined.")
               /\ log = <<>>
        /\ (app.SharedParametersFilename # "" /\ app.SharedParameterFile = None) =>
               /\ ret.kind = "raise"
               /\ ret.exc = PyRevitException("Failed opening Shared Parameters file.")
        /\ (app.SharedParametersFilename # "" /\ app.SharedParameterFile # None) =>
               /\ ret.kind = "return"
               /\ ret.op = "get_sharedparam_definition_file" =>
                      ret.value = app.SharedParameterFile
               /\ ret.op = "get_defined_sharedparams" =>
                      /\ Range(ret.value) =
                             UNION {Range(g.Definitions) :
                                       g \in Range(app.SharedParameterFile.Groups)}

\* the filename is set, the file does not open, and the list is asked for
C3_Witness ==
    /\ ret.op = "get_defined_sharedparams"
    /\ app.SharedParametersFilename # ""
    /\ app.SharedParameterFile = None
    /\ ret.kind = "raise"

\* C10: given an elements list, of any length, the empty list included,
\* get_elements_by_category returns the members of that list, in their
\* order, whose category maps to a built-in category in element_bicats; the
\* document is collected from only when elements is None.
C10_FiltersTheGivenList ==
    (/\ ret.op = "get_elements_by_category"
     /\ ret.args.elements # None
     /\ ret.kind = "return")
        => LET bicats == Range(ret.args.element_bicats)
               Mapped(x) == get_builtincategory(Str(x.Category.Name), None).value \in bicats
           IN  ret.value = Filter(ret.args.elements.l, Mapped)

\* the grids get_gridpoints works on
SourceGrids(a) ==
    IF a.grids # None /\ a.grids.l # <<>>
    THEN a.grids.l
    ELSE get_all_grids(FALSE, a.include_linked_models, a.doc).value

\* the ordered pairs of source grids that overlap, as pairs of positions
Overlapping(S) ==
    {pr \in (DOMAIN S) \X (DOMAIN S) : Intersect(S[pr[1]], S[pr[2]]) # None}

\* pr comes no later than qr in the order of the two loops
NoLater(pr, qr) == pr[1] < qr[1] \/ (pr[1] = qr[1] /\ pr[2] <= qr[2])

\* C6: get_gridpoints returns one GridPoint for each distinct point in
\* which an ordered pair of source grids overlaps: no two of them have equal
\* points, each point is that of an overlapping pair and each overlapping
\* pair's point is there, and the grids of a GridPoint are the two grids of
\* the last overlapping pair with that point in the order of the loops.
C6_GridPointsArePairwiseIntersections ==
    ret.op = "get_gridpoints" =>
        LET S == SourceGrids(ret.args)
            OP == Overlapping(S)
        IN  /\ ret.kind = "return"
            /\ \A g, h \in ret.value : g.point = h.point => g = h
            /\ {g.point : g \in ret.value} = {Intersect(S[pr[1]], S[pr[2]]) : pr \in OP}
            /\ \A g \in ret.value :
                   \E pr \in OP :
                       /\ Intersect(S[pr[1]], S[pr[2]]) = g.point
                       /\ g.grids = <<S[pr[1]], S[pr[2]]>>
                       /\ \A qr \in OP :
                              Intersect(S[qr[1]], S[qr[2]]) = g.point => NoLater(qr, pr)

\* three grids meet in one point, and one pair is recorded for it
C6_Witness ==
    /\ ret.op = "get_gridpoints"
    /\ ret.kind = "return"
    /\ LET S == SourceGrids(ret.args)
       IN  \E g \in ret.value :
               Cardinality({i \in DOMAIN S :
                               \E j \in DOMAIN S : Intersect(S[i], S[j]) = g.point}) >= 3

\* C7: for a non-empty list of grid points and an element,
\* get_closest_gridpoint returns a member of the list no farther from the
\* location point of the element than any other member, and of the members
\* at that least distance the first in the list.
C7_ClosestIsFirstNearest ==
    (ret.op = "get_closest_gridpoint" /\ ret.args.gridpoints # <<>>) =>
        LET gps == ret.args.gridpoints
            D(i) == Dist2(gps[i].point, ret.args.element.Location)
        IN  /\ ret.kind = "return"
            /\ \E i \in DOMAIN gps :
                   /\ \A j \in DOMAIN gps : D(i) <= D(j)
                   /\ \A j \in DOMAIN gps : j < i => D(i) < D(j)
                   /\ ret.value = gps[i]

\* two different grid points at the least distance: the first is returned
C7_Witness ==
    /\ ret.op = "get_closest_gridpoint"
    /\ Len(ret.args.gridpoints) >= 2
    /\ LET gps == ret.args.gridpoints
           D(i) == Dist2(gps[i].point, ret.args.element.Location)
       IN  /\ gps[1] # gps[2]
           /\ D(1) = D(2)
           /\ \A j \in DOMAIN gps : D(1) <= D(j)
           /\ ret.value = gps[1]

\* C5: the module only reads: over any sequence of calls of the query
\* functions, with any arguments, the contents of the documents stay what
\* they were, get_category_set and get_all_category_set included.
C5_DocumentsAreOnlyRead == [][docs' = docs]_vars

\* a category set was built from the categories of a document
C5_Witness ==
    /\ ret.op = "get_category_set"
    /\ ret.kind = "return"
    /\ ret.value # {}

\* C11: exact workset matching is exact: find_workset with partial=False and
\* model_has_workset with partial=False return the first workset, in the
\* order of the host's collection, whose name equals a requested name (the
\* request a single name or a list of names), and None when there is none.
C11_ExactMatchingIsExact ==
    (/\ ret.op \in {"find_workset", "model_has_workset"}
     /\ ~ret.args.partial
     /\ ret.args.req.t \in {"str", "list"})
        => LET req == ret.args.req
               names == IF req.t = "str" THEN {req.s} ELSE Range(req.l)
               Requested(w) == w.Name \in names
           IN  /\ ret.kind = "return"
               /\ ret.value = First(DocOf(ret.args.doc).worksets, Requested)

\* what the call recorded in ret gives in the present state
Again ==
    LET a == ret.args
    IN  CASE ret.op = "get_category" -> get_category(a.key, a.doc)
          [] ret.op = "get_builtincategory" -> get_builtincategory(a.key, a.doc)
          [] ret.op = "get_category_schedules" -> get_category_schedules(a.key, a.doc)
          [] ret.op = "get_elements_by_shared_parameter" ->
                 get_elements_by_shared_parameter(a.param_name, a.param_value,
                                                  a.inverse, a.doc)
          [] ret.op = "get_all_grids" ->
                 get_all_grids(a.group_by_direction, a.include_linked_models, a.doc)

\* C12: an explicit doc determines the queried document: the result of
\* get_category, get_builtincategory, get_category_schedules,
\* get_elements_by_shared_parameter and
\* get_all_grids(include_linked_models=True), called with a doc, is the result
\* the same call with the same doc gives whatever document the host has
\* active.
C12_GivenDocDeterminesResult ==
    (/\ ret.op \in {"get_category", "get_builtincategory", "get_category_schedules",
                     "get_elements_by_shared_parameter", "get_all_grids"}
     /\ ret.args.doc # None
     /\ ret.op = "get_all_grids" => ret.args.include_linked_models)
        => /\ ret.kind = Again.kind
           /\ ret.value = Again.value
           /\ ret.exc = Again.exc

====
